---------------------------- MODULE Spec2Model ----------------------------
(***************************************************************************)
(* A model of #iOSIPARenamer.js: the scan loop (#renameFiles), the          *)
(* event-driven manifest extraction (#extractInfoFromIPA), the rename plan  *)
(* (#getNewFilePath) and the rename itself (#safeRenameFile).               *)
(*                                                                         *)
(* Strings are sequences of one-character strings.  The two non-ASCII       *)
(* characters of the name template are written "U2194" (the left-right      *)
(* arrow) and "U2013" (the en dash); each stands for one character.         *)
(* Paths follow the POSIX flavour of Node's path module.                    *)
(***************************************************************************)
EXTENDS Integers, Sequences, FiniteSets

(***************************************************************************)
(* Bounds of the model.                                                     *)
(***************************************************************************)
MaxFiles == 2

MaxRuns == 2

ChunksPerEntry == 1

(***************************************************************************)
(* Strings.                                                                 *)
(***************************************************************************)
\* The character class of /[\/\\:*?"<>|]/ (lines 160 and 182).
Reserved == {"/", "\\", ":", "*", "?", "\"", "<", ">", "|"}

\* String.prototype.replace(/[\/\\:*?"<>|]/g, ' ').
ReplaceReserved(s) == [i \in 1..Len(s) |-> IF s[i] \in Reserved THEN " " ELSE s[i]]

LowerChar(c) ==
  CASE c = "A" -> "a" [] c = "B" -> "b" [] c = "C" -> "c" [] c = "D" -> "d"
    [] c = "E" -> "e" [] c = "F" -> "f" [] c = "G" -> "g" [] c = "H" -> "h"
    [] c = "I" -> "i" [] c = "J" -> "j" [] c = "K" -> "k" [] c = "L" -> "l"
    [] c = "M" -> "m" [] c = "N" -> "n" [] c = "O" -> "o" [] c = "P" -> "p"
    [] c = "Q" -> "q" [] c = "R" -> "r" [] c = "S" -> "s" [] c = "T" -> "t"
    [] c = "U" -> "u" [] c = "V" -> "v" [] c = "W" -> "w" [] c = "X" -> "x"
    [] c = "Y" -> "y" [] c = "Z" -> "z" [] OTHER -> c

\* String.prototype.toLowerCase().
ToLowerCase(s) == [i \in 1..Len(s) |-> LowerChar(s[i])]

EndsWith(s, t) ==
  /\ Len(t) <= Len(s)
  /\ SubSeq(s, Len(s) - Len(t) + 1, Len(s)) = t

StartsWith(s, t) ==
  /\ Len(t) <= Len(s)
  /\ SubSeq(s, 1, Len(t)) = t

\* The greatest index of character c in s, 0 when there is none.
LastIndexOf(s, c) ==
  LET hits == {i \in 1..Len(s) : s[i] = c}
  IN  IF hits = {} THEN 0 ELSE CHOOSE i \in hits : \A j \in hits : j <= i

(***************************************************************************)
(* Node's path module (POSIX).                                              *)
(***************************************************************************)
\* The last path segment, as path.basename(p) returns it.
BaseOf(p) == SubSeq(p, LastIndexOf(p, "/") + 1, Len(p))

\* path.extname: from the last "." of the last segment to its end; empty when
\* there is no ".", when the "." is the segment's first character, and for "..".
extname(p) ==
  LET base == BaseOf(p)
      dot  == LastIndexOf(base, ".")
  IN  IF dot = 0 \/ dot = 1 \/ base = <<".", ".">>
      THEN <<>>
      ELSE SubSeq(base, dot, Len(base))

\* path.basename(p, ext): the last segment, without ext when it ends with it.
basename(p, ext) ==
  LET base == BaseOf(p)
  IN  IF ext # <<>> /\ ext = p THEN <<>>
      ELSE IF ext # <<>> /\ EndsWith(base, ext) /\ Len(base) > Len(ext)
      THEN SubSeq(base, 1, Len(base) - Len(ext))
      ELSE base

\* path.dirname(p).
dirname(p) ==
  LET slash == LastIndexOf(p, "/")
  IN  IF slash = 0 THEN <<".">>
      ELSE IF slash = 1 THEN <<"/">>
      ELSE SubSeq(p, 1, slash - 1)

RECURSIVE SplitSegs(_)
\* p.split("/").
SplitSegs(s) ==
  IF s = <<>> THEN << <<>> >>
  ELSE LET rest == SplitSegs(Tail(s))
       IN  IF Head(s) = "/"
           THEN << <<>> >> \o rest
           ELSE << <<Head(s)>> \o Head(rest) >> \o Tail(rest)

RECURSIVE NormSegs(_, _, _)
\* normalizeString: drops "" and "." segments and resolves "..".
NormSegs(segs, acc, allowAboveRoot) ==
  IF segs = <<>> THEN acc
  ELSE LET seg == Head(segs)
       IN  IF seg = <<>> \/ seg = <<".">>
           THEN NormSegs(Tail(segs), acc, allowAboveRoot)
           ELSE IF seg = <<".", ".">>
           THEN IF acc # <<>> /\ acc[Len(acc)] # <<".", ".">>
                THEN NormSegs(Tail(segs), SubSeq(acc, 1, Len(acc) - 1), allowAboveRoot)
                ELSE IF allowAboveRoot
                THEN NormSegs(Tail(segs), Append(acc, seg), allowAboveRoot)
                ELSE NormSegs(Tail(segs), acc, allowAboveRoot)
           ELSE NormSegs(Tail(segs), Append(acc, seg), allowAboveRoot)

RECURSIVE JoinSegs(_)
JoinSegs(segs) ==
  IF segs = <<>> THEN <<>>
  ELSE IF Len(segs) = 1 THEN Head(segs)
  ELSE Head(segs) \o <<"/">> \o JoinSegs(Tail(segs))

\* path.normalize(p).
normalize(p) ==
  IF p = <<>> THEN <<".">>
  ELSE LET isAbsolute == p[1] = "/"
           trailing   == p[Len(p)] = "/"
           body       == JoinSegs(NormSegs(SplitSegs(p), <<>>, ~isAbsolute))
           body2      == IF body = <<>> /\ ~isAbsolute THEN <<".">> ELSE body
           body3      == IF body2 # <<>> /\ trailing THEN body2 \o <<"/">> ELSE body2
       IN  IF isAbsolute THEN <<"/">> \o body3 ELSE body3

\* path.join(a, b).
join(a, b) ==
  IF a = <<>> THEN normalize(b)
  ELSE IF b = <<>> THEN normalize(a)
  ELSE normalize(a \o <<"/">> \o b)

(***************************************************************************)
(* JavaScript values as the manifest decoders return them.                  *)
(***************************************************************************)
Undefined == [t |-> "undefined", s |-> <<>>, n |-> 0]

Null == [t |-> "null", s |-> <<>>, n |-> 0]

Str(s) == [t |-> "string", s |-> s, n |-> 0]

Num(n) == [t |-> "number", s |-> <<>>, n |-> n]

\* ToBoolean.
Truthy(v) ==
  CASE v.t = "string" -> v.s # <<>>
    [] v.t = "number" -> v.n # 0
    [] OTHER -> FALSE

\* a || b.
Or(a, b) == IF Truthy(a) THEN a ELSE b

Digits == <<"0", "1", "2", "3", "4", "5", "6", "7", "8", "9">>

\* ToString, as a template literal applies it (numbers here are 0..9).
ToString(v) ==
  CASE v.t = "string" -> v.s
    [] v.t = "number" -> <<Digits[v.n + 1]>>
    [] v.t = "null" -> <<"n", "u", "l", "l">>
    [] OTHER -> <<"u", "n", "d", "e", "f", "i", "n", "e", "d">>

ManifestKeys ==
  {"CFBundleDisplayName", "CFBundleName", "BundleDisplayName",
   "UILocalizedDisplayName", "CFBundleShortVersionString", "CFBundleVersion",
   "MinimumOSVersion"}

\* A decoded top-level object with the given keys set; every other key is
\* absent (reads as undefined).
Obj(f) ==
  [isObject |-> TRUE,
   props |-> [k \in ManifestKeys |-> IF k \in DOMAIN f THEN f[k] ELSE Undefined]]

\* A decoder result that is undefined (bplist.parseBuffer(buffer)[0] of an
\* empty result).
NoObject == [isObject |-> FALSE, props |-> [k \in ManifestKeys |-> Undefined]]

(***************************************************************************)
(* #extractInfoFromIPA, lines 160-165: the metadata record.                 *)
(***************************************************************************)
NoInfo == [isNull |-> TRUE, appName |-> <<>>, version |-> <<>>, minIOS |-> <<>>]

\* Whether lines 160-163 throw a TypeError: a property read of undefined, or
\* ?.replace on a value that is neither nullish nor a string.
extractThrows(data) ==
  \/ ~data.isObject
  \/ LET name == Or(Or(Or(data.props["CFBundleDisplayName"], data.props["CFBundleName"]),
                       data.props["BundleDisplayName"]),
                    data.props["UILocalizedDisplayName"])
     IN  name.t \notin {"undefined", "null", "string"}

\* The record {appName, version, minIOS} of line 165 (when nothing throws).
extractInfo(data) ==
  LET name == Or(Or(Or(data.props["CFBundleDisplayName"], data.props["CFBundleName"]),
                    data.props["BundleDisplayName"]),
                 data.props["UILocalizedDisplayName"])
      replaced == IF name.t = "string" THEN Str(ReplaceReserved(name.s)) ELSE Undefined
      appName == Or(replaced, Str(<<"U", "n", "k", "n", "o", "w", "n", "N", "a", "m", "e">>))
      rawVersion == Or(Or(data.props["CFBundleShortVersionString"],
                          data.props["CFBundleVersion"]), Null)
      version == IF Truthy(rawVersion)
                 THEN <<" ", "[", "v">> \o ToString(rawVersion) \o <<"]">>
                 ELSE <<>>
      minIOS == <<" ", "[", "i", "O", "S", " ">> \o ToString(Or(data.props["MinimumOSVersion"], Str(<<"0", ".", "0", ".", "0">>))) \o <<"]">>
  IN  [isNull |-> FALSE, appName |-> appName.s, version |-> version, minIOS |-> minIOS]

\* /Payload\/[^/]+\.app\/Info\.plist$/.test(fileName), line 134: the pattern is
\* anchored at the end only, so it may start anywhere in the name.
isManifestEntry(fileName) ==
  \E i \in 1..Len(fileName) :
    LET rest == SubSeq(fileName, i, Len(fileName))
        head == <<"P", "a", "y", "l", "o", "a", "d", "/">>
        tail == <<".", "a", "p", "p", "/", "I", "n", "f", "o", ".", "p", "l", "i", "s", "t">>
        mid  == SubSeq(rest, Len(head) + 1, Len(rest) - Len(tail))
    IN  /\ Len(rest) >= Len(head) + 1 + Len(tail)
        /\ StartsWith(rest, head)
        /\ EndsWith(rest, tail)
        /\ \A k \in 1..Len(mid) : mid[k] # "/"

\* The decoder dispatch of lines 150-152: the first six bytes choose the
\* binary decoder (whose first parsed object is taken) or the textual one.
decodeThrows(content) ==
  IF content.magic = <<"b", "p", "l", "i", "s", "t">> THEN content.binary.throws ELSE content.text.throws

decode(content) ==
  IF content.magic = <<"b", "p", "l", "i", "s", "t">>
  THEN IF content.binary.result = <<>> THEN NoObject ELSE content.binary.result[1]
  ELSE content.text.result

(***************************************************************************)
(* #getNewFilePath, lines 176-185.  The empty sequence stands for null.     *)
(***************************************************************************)
\* #getNewFilePath ending the name with realExt instead of fileExt: the
\* variant C5 is tested against.
getNewFilePath_keepCase(include, info, fileExt, originalPath) ==
  LET dirName == dirname(originalPath)
      realExt == extname(originalPath)
      fileName == basename(originalPath, realExt)
      prefix == IF include THEN fileName \o <<" ", "U2194", " ">> ELSE <<>>
      newName == prefix \o info.appName \o <<" ", "U2013">> \o info.version \o info.minIOS \o realExt
      safeNewName == ReplaceReserved(newName)
      newPath == join(dirName, safeNewName)
  IN  IF newPath = originalPath THEN <<>> ELSE newPath

\* #getNewFilePath without the replacement of line 182: the variant C6 is
\* tested against.
getNewFilePath_unsafe(include, info, fileExt, originalPath) ==
  LET dirName == dirname(originalPath)
      realExt == extname(originalPath)
      fileName == basename(originalPath, realExt)
      prefix == IF include THEN fileName \o <<" ", "U2194", " ">> ELSE <<>>
      newName == prefix \o info.appName \o <<" ", "U2013">> \o info.version \o info.minIOS \o fileExt
      newPath == join(dirName, newName)
  IN  IF newPath = originalPath THEN <<>> ELSE newPath

\* The first argument is iOSIPARenamerSettings.INCLUDE_ORIGINAL_NAME.
getNewFilePath(include, info, fileExt, originalPath) ==
  LET dirName == dirname(originalPath)
      realExt == extname(originalPath)
      fileName == basename(originalPath, realExt)
      prefix == IF include THEN fileName \o <<" ", "U2194", " ">> ELSE <<>>
      newName == prefix \o info.appName \o <<" ", "U2013">> \o info.version \o info.minIOS \o fileExt
      safeNewName == ReplaceReserved(newName)
      newPath == join(dirName, safeNewName)
  IN  IF newPath = originalPath THEN <<>> ELSE newPath

SUPPORTED_EXTENSIONS == {<<".", "i", "p", "a">>}

\* #isFileSupported, lines 123-125.
isFileSupported(fileExt) == fileExt \in SUPPORTED_EXTENSIONS

(***************************************************************************)
(* The archives of the model: each a container whose entries carry the      *)
(* name yauzl reports and the bytes of the entry, described by their six    *)
(* byte prefix and by what each decoder makes of them.                      *)
(***************************************************************************)
Throwing == [throws |-> TRUE, result |-> <<>>]

\* A textual property list that plist.parse decodes to `value`.
XmlOf(value) ==
  [magic |-> <<"<", "?", "x", "m", "l", " ">>, binary |-> Throwing,
   text |-> [throws |-> FALSE, result |-> value]]

\* A binary property list that bplist.parseBuffer decodes to the array `objs`.
BinOf(objs) ==
  [magic |-> <<"b", "p", "l", "i", "s", "t">>, binary |-> [throws |-> FALSE, result |-> objs],
   text |-> [throws |-> TRUE, result |-> NoObject]]

\* Bytes neither decoder accepts.
Corrupt ==
  [magic |-> <<"<", "?", "x", "m", "l", " ">>, binary |-> Throwing,
   text |-> [throws |-> TRUE, result |-> NoObject]]

ManifestFull ==
  Obj([CFBundleDisplayName |-> Str(<<"A", ":", "b">>),
       CFBundleShortVersionString |-> Str(<<"1", "/", "2">>),
       MinimumOSVersion |-> Str(<<"9", "?">>)])

ManifestNameOnly == Obj([CFBundleDisplayName |-> Str(<<>>), CFBundleName |-> Str(<<"T">>)])

ManifestEmpty == [isObject |-> TRUE, props |-> [k \in ManifestKeys |-> Undefined]]

ManifestNumericName == Obj([CFBundleDisplayName |-> Num(7), CFBundleVersion |-> Num(3)])

Archives ==
  << \* a bundle manifest after an unrelated entry and before another one
     << [fileName |-> <<"a", ".", "a", "p", "p", "/", "I", "n", "f", "o", ".", "p", "l", "i", "s", "t">>, content |-> Corrupt],
        [fileName |-> <<"P", "a", "y", "l", "o", "a", "d", "/", "X", ".", "a", "p", "p", "/", "I", "n", "f", "o", ".", "p", "l", "i", "s", "t">>, content |-> XmlOf(ManifestFull)],
        [fileName |-> <<"P", "a", "y", "l", "o", "a", "d", "/", "X", ".", "a", "p", "p", "/", "e">>, content |-> Corrupt] >>,
     \* a nested Payload folder listed before the bundle's own manifest
     << [fileName |-> <<"x", "/", "P", "a", "y", "l", "o", "a", "d", "/", "A", ".", "a", "p", "p", "/", "I", "n", "f", "o", ".", "p", "l", "i", "s", "t">>, content |-> XmlOf(ManifestNameOnly)],
        [fileName |-> <<"P", "a", "y", "l", "o", "a", "d", "/", "B", ".", "a", "p", "p", "/", "I", "n", "f", "o", ".", "p", "l", "i", "s", "t">>, content |-> XmlOf(ManifestFull)] >>,
     \* a flat zip with no manifest
     << [fileName |-> <<"r", "e", "a", "d", "m", "e">>, content |-> Corrupt] >>,
     \* a binary manifest whose decoded array is empty
     << [fileName |-> <<"P", "a", "y", "l", "o", "a", "d", "/", "X", ".", "a", "p", "p", "/", "I", "n", "f", "o", ".", "p", "l", "i", "s", "t">>, content |-> BinOf(<<>>)] >>,
     \* a manifest neither decoder accepts
     << [fileName |-> <<"P", "a", "y", "l", "o", "a", "d", "/", "X", ".", "a", "p", "p", "/", "I", "n", "f", "o", ".", "p", "l", "i", "s", "t">>, content |-> Corrupt] >>,
     \* a binary manifest whose display name is a number
     << [fileName |-> <<"P", "a", "y", "l", "o", "a", "d", "/", "X", ".", "a", "p", "p", "/", "I", "n", "f", "o", ".", "p", "l", "i", "s", "t">>, content |-> BinOf(<<ManifestNumericName>>)] >>,
     \* a binary manifest with none of the recognized keys
     << [fileName |-> <<"P", "a", "y", "l", "o", "a", "d", "/", "X", ".", "a", "p", "p", "/", "I", "n", "f", "o", ".", "p", "l", "i", "s", "t">>, content |-> BinOf(<<ManifestEmpty>>)] >> >>

ArchiveIds == 1..Len(Archives)

\* __dirname, line 8.
rootPath == <<"/", "r">>

\* The files a scanned tree may hold when the model starts.
CandidatePaths ==
  {<<"/", "r", "/", "s", "/", "g", ".", "i", "p", "a">>, <<"/", "r", "/", "s", "/", "h", ".", "I", "P", "A">>, <<"/", "r", "/", "n", ".", "z", "i", "p">>, <<"/", "r", "/", "#", "I", "g", "n", "o", "r", "e", "d", "/", "i", ".", "i", "p", "a">>}

IGNORED_DIRECTORIES == {<<"#", "I", "g", "n", "o", "r", "e", "d">>, <<"n", "o", "d", "e", "_", "m", "o", "d", "u", "l", "e", "s">>}

IGNORED_FILES ==
  {<<"#", "i", "O", "S", "I", "P", "A", "R", "e", "n", "a", "m", "e", "r", ".", "b", "a", "t">>, <<"#", "i", "O", "S", "I", "P", "A", "R", "e", "n", "a", "m", "e", "r", ".", "j", "s">>, <<"p", "a", "c", "k", "a", "g", "e", ".", "j", "s", "o", "n">>, <<"p", "a", "c", "k", "a", "g", "e", "-", "l", "o", "c", "k", ".", "j", "s", "o", "n">>}

\* Whether the walk leaves out the file at path p (below rootPath): one of its
\* directories is ignored or hidden, or its own name is an ignored file name.
isIgnored(p) ==
  LET segs == SplitSegs(SubSeq(p, Len(rootPath) + 2, Len(p)))
      dirs == {segs[i] : i \in 1..(Len(segs) - 1)}
      name == segs[Len(segs)]
  IN  \/ \E d \in dirs :
           \/ \E ignored \in IGNORED_DIRECTORIES : ToLowerCase(ignored) = ToLowerCase(d)
           \/ StartsWith(d, <<".">>)
      \/ \E ignored \in IGNORED_FILES : ToLowerCase(ignored) = ToLowerCase(name)

\* A file the program never opens, whatever it holds: the walk leaves it out
\* or its extension is not supported.  The model gives every such file the
\* same content.
NeverOpened(p) == isIgnored(p) \/ ~isFileSupported(ToLowerCase(extname(p)))

\* The archive of the catalogue that is a flat zip: a single entry, no manifest.
FlatZip ==
  CHOOSE a \in ArchiveIds :
    Len(Archives[a]) = 1 /\ ~isManifestEntry(Archives[a][1].fileName)

(***************************************************************************)
(* State.                                                                   *)
(***************************************************************************)
VARIABLES
  includeOriginalName,  \* iOSIPARenamerSettings.INCLUDE_ORIGINAL_NAME
  fs,                   \* the files on disk: path -> archive id
  run,                  \* runs of the program started so far
  pc,                   \* where the running program is
  allFiles,             \* the walk list of #renameFiles
  idx,                  \* position of the for-of loop in allFiles
  renamedFilesLength,   \* #renamedFilesLength
  skippedFilesLength,   \* #skippedFilesLength
  zipEntries,           \* the entries of the open zipfile, in container order
  entriesRead,          \* 'entry' events emitted by the zipfile
  readEntryCalls,       \* calls of zipfile.readEntry()
  matched,              \* index of the entry openReadStream was called for, or 0
  chunks,               \* chunks pushed by the 'data' handler
  data,                 \* the decoded manifest
  decoded,              \* whether the try block of lines 149-152 completed
  info,                 \* the value #extractInfoFromIPA resolved with
  newFilePath,          \* the value of #getNewFilePath, <<>> for null
  openHandles,          \* containers opened and not yet closed
  wasOpened,            \* whether yauzl.open succeeded for the current file
  closeCalls,           \* closes of the current file's container
  resolveCalls,         \* calls of resolve for the current file
  streamsOpened,        \* entries openReadStream was called for
  incr,                 \* per walk-list position: counter increments made
  renamesDone,          \* calls of fs.rename that succeeded in this run
  opened,               \* walk-list positions yauzl.open was called for
  crashCause,           \* the uncaught exception that ended the process
  origin,               \* path -> the run and metadata of the rename that made it
  filesAtStart,         \* number of files on disk before the first run
  overwrote             \* whether a successful rename replaced an existing file

vars ==
  <<includeOriginalName, fs, run, pc, allFiles, idx, renamedFilesLength,
    skippedFilesLength, zipEntries, entriesRead, readEntryCalls, matched, chunks,
    data, decoded, info, newFilePath, openHandles, wasOpened, closeCalls,
    resolveCalls, streamsOpened, incr, renamesDone, opened, crashCause, origin,
    filesAtStart, overwrote>>

config == <<includeOriginalName, filesAtStart>>

counters == <<renamedFilesLength, skippedFilesLength, incr, renamesDone>>

zipVars ==
  <<zipEntries, entriesRead, readEntryCalls, matched, chunks, data, decoded,
    openHandles, wasOpened, closeCalls, streamsOpened>>

disk == <<fs, origin, overwrote>>

filePath == allFiles[idx]

\* The closure state of one #extractInfoFromIPA call, before yauzl.open.
FreshExtraction ==
  /\ zipEntries' = <<>>
  /\ entriesRead' = 0
  /\ readEntryCalls' = 0
  /\ matched' = 0
  /\ chunks' = 0
  /\ data' = NoObject
  /\ decoded' = FALSE
  /\ wasOpened' = FALSE
  /\ closeCalls' = 0
  /\ resolveCalls' = 0
  /\ streamsOpened' = {}
  /\ info' = NoInfo
  /\ newFilePath' = <<>>

Init ==
  /\ includeOriginalName \in BOOLEAN
  /\ \E S \in SUBSET CandidatePaths :
       /\ Cardinality(S) \in 1..MaxFiles
       /\ fs \in [S -> ArchiveIds]
       /\ \A p \in S : NeverOpened(p) => fs[p] = FlatZip
  /\ filesAtStart = Cardinality(DOMAIN fs)
  /\ run = 0
  /\ pc = "idle"
  /\ allFiles = <<>>
  /\ idx = 1
  /\ renamedFilesLength = 0
  /\ skippedFilesLength = 0
  /\ zipEntries = <<>>
  /\ entriesRead = 0
  /\ readEntryCalls = 0
  /\ matched = 0
  /\ chunks = 0
  /\ data = NoObject
  /\ decoded = FALSE
  /\ info = NoInfo
  /\ newFilePath = <<>>
  /\ openHandles = 0
  /\ wasOpened = FALSE
  /\ closeCalls = 0
  /\ resolveCalls = 0
  /\ streamsOpened = {}
  /\ incr = <<>>
  /\ renamesDone = 0
  /\ opened = {}
  /\ crashCause = "none"
  /\ origin = [p \in {} |-> [run |-> 0, info |-> NoInfo]]
  /\ overwrote = FALSE

(***************************************************************************)
(* #walkDir, lines 199-235.                                                 *)
(***************************************************************************)
\* The directories above the file at path p, rootPath included.
DirsAbove(p) == {SubSeq(p, 1, i - 1) : i \in {k \in (Len(rootPath) + 1)..Len(p) : p[k] = "/"}}

\* The lists #walkDir may return: the files not ignored, each once, in the
\* order readdir lists each directory (any order), a directory's files being
\* pushed by the recursive call before the next entry of its parent is looked
\* at: the files below one directory are next to each other.
walkDir(files) ==
  LET kept == {p \in DOMAIN files : ~isIgnored(p)}
      dirs == UNION {DirsAbove(p) : p \in kept}
  IN  {l \in [1..Cardinality(kept) -> kept] :
         /\ \A i, j \in DOMAIN l : l[i] = l[j] => i = j
         /\ \A d \in dirs : \A i, j, k \in DOMAIN l :
              (i < j /\ j < k /\ d \in DirsAbove(l[i]) /\ d \in DirsAbove(l[k]))
                => d \in DirsAbove(l[j])}

\* node "#iOSIPARenamer.js": a new process; rename() runs #renameFiles, whose
\* first step is the walk.
StartRun ==
  /\ pc \in {"idle", "done", "crashed"}
  /\ run < MaxRuns
  /\ run' = run + 1
  /\ allFiles' \in walkDir(fs)
  /\ idx' = 1
  /\ renamedFilesLength' = 0
  /\ skippedFilesLength' = 0
  /\ incr' = [i \in 1..Len(allFiles') |-> [renamed |-> 0, skipped |-> 0]]
  /\ renamesDone' = 0
  /\ opened' = {}
  /\ openHandles' = 0
  /\ crashCause' = "none"
  /\ FreshExtraction
  /\ pc' = "loop"
  /\ UNCHANGED <<config, disk>>

\* The bookkeeping of one finished loop iteration.
Counted(kind) ==
  /\ incr' = [incr EXCEPT ![idx] =
                IF kind = "renamed"
                THEN [@ EXCEPT !.renamed = @ + 1]
                ELSE [@ EXCEPT !.skipped = @ + 1]]
  /\ renamedFilesLength' = IF kind = "renamed" THEN renamedFilesLength + 1 ELSE renamedFilesLength
  /\ skippedFilesLength' = IF kind = "renamed" THEN skippedFilesLength ELSE skippedFilesLength + 1

(***************************************************************************)
(* #renameFiles, lines 88-121.                                              *)
(***************************************************************************)
\* Lines 91-99: a file whose extension is not supported is skipped.
SkipUnsupported ==
  /\ pc = "loop"
  /\ idx <= Len(allFiles)
  /\ ~isFileSupported(ToLowerCase(extname(filePath)))
  /\ Counted("unsupported")
  /\ idx' = idx + 1
  /\ UNCHANGED <<config, disk, renamesDone, run, pc, allFiles, zipVars, info, newFilePath,
                 resolveCalls, opened, crashCause>>

\* Lines 91-101 and 128-129: a supported file; yauzl.open is called.
BeginExtract ==
  /\ pc = "loop"
  /\ idx <= Len(allFiles)
  /\ isFileSupported(ToLowerCase(extname(filePath)))
  /\ opened' = opened \cup {idx}
  /\ FreshExtraction
  /\ pc' = "opening"
  /\ UNCHANGED <<config, disk, run, allFiles, idx, counters, openHandles, crashCause>>

\* Lines 120 and 237-242: the loop is over; #cleanup deletes the auxiliary
\* files of the root, none of which is an archive of the walk.
Cleanup ==
  /\ pc = "loop"
  /\ idx > Len(allFiles)
  /\ pc' = "done"
  /\ UNCHANGED <<config, disk, run, allFiles, idx, counters, zipVars, info,
                 newFilePath, resolveCalls, opened, crashCause>>

(***************************************************************************)
(* #extractInfoFromIPA, lines 127-173.                                      *)
(***************************************************************************)
\* zipfile.close().
Close ==
  /\ closeCalls' = closeCalls + 1
  /\ openHandles' = IF openHandles > 0 THEN openHandles - 1 ELSE 0

\* Line 130: yauzl.open fails; resolve(null).
OpenError ==
  /\ pc = "opening"
  /\ resolveCalls' = resolveCalls + 1
  /\ info' = NoInfo
  /\ pc' = "resolved"
  /\ UNCHANGED <<config, disk, run, allFiles, idx, counters, zipVars, newFilePath,
                 opened, crashCause>>

\* Lines 129-133 and 170: the container is open; the first entry is requested
\* and the handlers are registered.
OpenOk ==
  /\ pc = "opening"
  /\ zipEntries' = Archives[fs[filePath]]
  /\ wasOpened' = TRUE
  /\ openHandles' = openHandles + 1
  /\ readEntryCalls' = 1
  /\ pc' = "scanning"
  /\ UNCHANGED <<config, disk, run, allFiles, idx, counters, entriesRead, matched,
                 chunks, data, decoded, closeCalls, streamsOpened, info,
                 newFilePath, resolveCalls, opened, crashCause>>

\* The 'entry' handler with readEntry() called for every entry, as an eager
\* scan would: the variant C8 is tested against.
OnEntry_keepsReading ==
  /\ pc = "scanning"
  /\ readEntryCalls > entriesRead
  /\ entriesRead < Len(zipEntries)
  /\ entriesRead' = entriesRead + 1
  /\ readEntryCalls' = readEntryCalls + 1
  /\ IF ~isManifestEntry(zipEntries[entriesRead + 1].fileName)
     THEN UNCHANGED <<matched, streamsOpened, pc>>
     ELSE /\ matched' = entriesRead + 1
          /\ streamsOpened' = streamsOpened \cup {entriesRead + 1}
          /\ pc' = "streamOpening"
  /\ UNCHANGED <<config, disk, run, allFiles, idx, counters, zipEntries, chunks, data,
                 decoded, openHandles, wasOpened, closeCalls, info, newFilePath,
                 resolveCalls, opened, crashCause>>

\* Lines 133-138, the 'entry' handler: a name that does not match requests the
\* next entry; the first that matches has its read stream opened.
OnEntry ==
  /\ pc = "scanning"
  /\ readEntryCalls > entriesRead
  /\ entriesRead < Len(zipEntries)
  /\ entriesRead' = entriesRead + 1
  /\ IF ~isManifestEntry(zipEntries[entriesRead + 1].fileName)
     THEN /\ readEntryCalls' = readEntryCalls + 1
          /\ UNCHANGED <<matched, streamsOpened, pc>>
     ELSE /\ matched' = entriesRead + 1
          /\ streamsOpened' = streamsOpened \cup {entriesRead + 1}
          /\ pc' = "streamOpening"
          /\ UNCHANGED readEntryCalls
  /\ UNCHANGED <<config, disk, run, allFiles, idx, counters, zipEntries, chunks, data,
                 decoded, openHandles, wasOpened, closeCalls, info, newFilePath,
                 resolveCalls, opened, crashCause>>

\* Line 170, the 'end' handler: every entry was read and none matched; yauzl
\* closes the container (autoClose) and emits 'end'; resolve(null).
OnEnd ==
  /\ pc = "scanning"
  /\ readEntryCalls > entriesRead
  /\ entriesRead = Len(zipEntries)
  /\ Close
  /\ resolveCalls' = resolveCalls + 1
  /\ info' = NoInfo
  /\ pc' = "resolved"
  /\ UNCHANGED <<config, disk, run, allFiles, idx, counters, zipEntries, entriesRead,
                 readEntryCalls, matched, chunks, data, decoded, wasOpened,
                 streamsOpened, newFilePath, opened, crashCause>>

\* Lines 133-170 register no 'error' handler on the zipfile: when reading a
\* requested entry fails, yauzl closes the container (autoClose) and emits
\* 'error', which without a listener is thrown and ends the process.
OnZipError ==
  /\ pc = "scanning"
  /\ readEntryCalls > entriesRead
  /\ entriesRead < Len(zipEntries)
  /\ Close
  /\ crashCause' = "zipfile error"
  /\ pc' = "crashed"
  /\ UNCHANGED <<config, disk, run, allFiles, idx, counters, zipEntries, entriesRead,
                 readEntryCalls, matched, chunks, data, decoded, wasOpened,
                 streamsOpened, info, newFilePath, resolveCalls, opened>>

\* Lines 138-142: openReadStream calls back with an error.
OpenStreamError ==
  /\ pc = "streamOpening"
  /\ Close
  /\ resolveCalls' = resolveCalls + 1
  /\ info' = NoInfo
  /\ pc' = "resolved"
  /\ UNCHANGED <<config, disk, run, allFiles, idx, counters, zipEntries, entriesRead,
                 readEntryCalls, matched, chunks, data, decoded, wasOpened,
                 streamsOpened, newFilePath, opened, crashCause>>

\* Lines 138 and 144-146: the stream is open; the 'data' and 'end' handlers
\* are registered.
OpenStreamOk ==
  /\ pc = "streamOpening"
  /\ chunks' = 0
  /\ pc' = "streaming"
  /\ UNCHANGED <<config, disk, run, allFiles, idx, counters, zipEntries, entriesRead,
                 readEntryCalls, matched, data, decoded, openHandles, wasOpened,
                 closeCalls, streamsOpened, info, newFilePath, resolveCalls,
                 opened, crashCause>>

\* Line 145, the 'data' handler.
OnData ==
  /\ pc = "streaming"
  /\ chunks < ChunksPerEntry
  /\ chunks' = chunks + 1
  /\ UNCHANGED <<config, disk, run, pc, allFiles, idx, counters, zipEntries,
                 entriesRead, readEntryCalls, matched, data, decoded, openHandles,
                 wasOpened, closeCalls, streamsOpened, info, newFilePath,
                 resolveCalls, opened, crashCause>>

\* Lines 146-166, the stream's 'end' handler: decode; on a decode error close
\* and resolve(null); otherwise close, build the record and resolve with it.
\* A TypeError of lines 160-163 is thrown outside the try block, inside an
\* event handler: it is uncaught and ends the process.
OnStreamEnd ==
  /\ pc = "streaming"
  /\ chunks = ChunksPerEntry
  /\ Close
  /\ LET content == zipEntries[matched].content
     IN  IF decodeThrows(content)
         THEN /\ resolveCalls' = resolveCalls + 1
              /\ info' = NoInfo
              /\ pc' = "resolved"
              /\ UNCHANGED <<data, decoded, crashCause>>
         ELSE /\ data' = decode(content)
              /\ decoded' = TRUE
              /\ IF extractThrows(decode(content))
                 THEN /\ crashCause' = "TypeError"
                      /\ pc' = "crashed"
                      /\ UNCHANGED <<info, resolveCalls>>
                 ELSE /\ info' = extractInfo(decode(content))
                      /\ resolveCalls' = resolveCalls + 1
                      /\ pc' = "resolved"
                      /\ UNCHANGED crashCause
  /\ UNCHANGED <<config, disk, run, allFiles, idx, counters, zipEntries, entriesRead,
                 readEntryCalls, matched, chunks, wasOpened, streamsOpened,
                 newFilePath, opened>>

\* Lines 144-146 register no 'error' handler on the read stream: a read error
\* after the stream was opened is thrown and ends the process; no line of the
\* handlers runs, so zipfile.close() is not called.
OnStreamError ==
  /\ pc = "streaming"
  /\ crashCause' = "stream error"
  /\ pc' = "crashed"
  /\ UNCHANGED <<config, disk, run, allFiles, idx, counters, zipVars, info,
                 newFilePath, resolveCalls, opened>>

(***************************************************************************)
(* #renameFiles after the await of line 101, lines 103-117.                 *)
(***************************************************************************)
\* Lines 103-107: no metadata.
SkipMissingMetadata ==
  /\ pc = "resolved"
  /\ info.isNull
  /\ Counted("missingMetadata")
  /\ idx' = idx + 1
  /\ pc' = "loop"
  /\ FreshExtraction
  /\ UNCHANGED <<config, disk, renamesDone, run, allFiles, openHandles, opened, crashCause>>

\* Lines 109-115: the plan is null, the file is already named.
SkipAlreadyRenamed ==
  /\ pc = "resolved"
  /\ ~info.isNull
  /\ getNewFilePath(includeOriginalName, info, ToLowerCase(extname(filePath)), filePath) = <<>>
  /\ Counted("alreadyRenamed")
  /\ idx' = idx + 1
  /\ pc' = "loop"
  /\ FreshExtraction
  /\ UNCHANGED <<config, disk, renamesDone, run, allFiles, openHandles, opened, crashCause>>

\* Lines 109-117 and 189: a plan; fs.rename is called.
PlanRename ==
  /\ pc = "resolved"
  /\ ~info.isNull
  /\ getNewFilePath(includeOriginalName, info, ToLowerCase(extname(filePath)), filePath) # <<>>
  /\ newFilePath' = getNewFilePath(includeOriginalName, info, ToLowerCase(extname(filePath)), filePath)
  /\ pc' = "renaming"
  /\ UNCHANGED <<config, disk, run, allFiles, idx, counters, zipVars, info,
                 resolveCalls, opened, crashCause>>

(***************************************************************************)
(* #safeRenameFile, lines 187-197.                                          *)
(***************************************************************************)
\* Lines 189-192: fs.rename succeeds; it replaces a file already at the
\* target path.
RenameOk ==
  /\ pc = "renaming"
  /\ filePath \in DOMAIN fs
  /\ fs' = [p \in (DOMAIN fs \ {filePath}) \cup {newFilePath} |->
              IF p = newFilePath THEN fs[filePath] ELSE fs[p]]
  /\ origin' = [p \in (DOMAIN origin \ {filePath}) \cup {newFilePath} |->
                  IF p = newFilePath THEN [run |-> run, info |-> info] ELSE origin[p]]
  /\ overwrote' = (overwrote \/ newFilePath \in DOMAIN fs)
  /\ renamesDone' = renamesDone + 1
  /\ Counted("renamed")
  /\ idx' = idx + 1
  /\ pc' = "loop"
  /\ FreshExtraction
  /\ UNCHANGED <<config, run, allFiles, openHandles, opened, crashCause>>

\* The catch block without its increment: the variant C10 is tested against.
RenameFail_uncounted ==
  /\ pc = "renaming"
  /\ idx' = idx + 1
  /\ pc' = "loop"
  /\ FreshExtraction
  /\ UNCHANGED <<config, disk, run, allFiles, openHandles, opened, crashCause,
                 renamedFilesLength, skippedFilesLength, incr, renamesDone>>

\* Lines 193-196: fs.rename fails; the error is logged and counted.
RenameFail ==
  /\ pc = "renaming"
  /\ Counted("errorRenaming")
  /\ idx' = idx + 1
  /\ pc' = "loop"
  /\ FreshExtraction
  /\ UNCHANGED <<config, disk, renamesDone, run, allFiles, openHandles, opened, crashCause>>

Next ==
  \/ StartRun
  \/ SkipUnsupported
  \/ BeginExtract
  \/ Cleanup
  \/ OpenError
  \/ OpenOk
  \/ OnEntry
  \/ OnEnd
  \/ OnZipError
  \/ OpenStreamError
  \/ OpenStreamOk
  \/ OnData
  \/ OnStreamEnd
  \/ OnStreamError
  \/ SkipMissingMetadata
  \/ SkipAlreadyRenamed
  \/ PlanRename
  \/ RenameOk
  \/ RenameFail

Spec == Init /\ [][Next]_vars

(***************************************************************************)
(* Claims.                                                                  *)
(***************************************************************************)

\* C1: with includeOriginalName = true, a file that an earlier run renamed and
\* that is processed again with the same metadata gets the plan none: it never
\* reaches a second rename.
C1_SecondRunAlreadyNamed ==
  ~ /\ pc = "renaming"
    /\ includeOriginalName
    /\ filePath \in DOMAIN origin
    /\ origin[filePath].run < run
    /\ origin[filePath].info = info

\* ^Payload/[^/]+\.app/Info\.plist$ : the pattern anchored at both ends.
AnchoredManifestName(fileName) ==
  LET head == <<"P", "a", "y", "l", "o", "a", "d", "/">>
      tail == <<".", "a", "p", "p", "/", "I", "n", "f", "o", ".", "p", "l", "i", "s", "t">>
      mid  == SubSeq(fileName, Len(head) + 1, Len(fileName) - Len(tail))
  IN  /\ Len(fileName) >= Len(head) + 1 + Len(tail)
      /\ StartsWith(fileName, head)
      /\ EndsWith(fileName, tail)
      /\ \A k \in 1..Len(mid) : mid[k] # "/"

\* C2: the entry chosen as the manifest always has a full name matching the
\* pattern anchored at both ends; a name with extra leading segments is never
\* chosen.
C2_ManifestNameAnchored ==
  matched # 0 => AnchoredManifestName(zipEntries[matched].fileName)

\* C3: the program stops only after every file of the walk list reached an
\* outcome; no failure of one archive ends the scan.
C3_ScanNeverAborts ==
  pc \in {"done", "crashed"} =>
    /\ pc = "done"
    /\ \A i \in 1..Len(allFiles) : incr[i].renamed + incr[i].skipped = 1

Absent(d, keys) == \A k \in keys : d.props[k].t = "undefined"

\* C4: for every value the decoder returns without throwing, building the
\* record raises no error and missing fields get the documented fallbacks.
C4_ExtractionTotal ==
  decoded =>
    /\ crashCause # "TypeError"
    /\ ~info.isNull
    /\ Absent(data, {"CFBundleDisplayName", "CFBundleName", "BundleDisplayName",
                     "UILocalizedDisplayName"}) => info.appName = <<"U", "n", "k", "n", "o", "w", "n", "N", "a", "m", "e">>
    /\ Absent(data, {"CFBundleShortVersionString", "CFBundleVersion"}) => info.version = <<>>
    /\ Absent(data, {"MinimumOSVersion"}) => info.minIOS = <<" ", "[", "i", "O", "S", " ", "0", ".", "0", ".", "0", "]">>

\* C5 as stated: a target path is a sibling of the original path, ends with
\* the original extension in its original letter case, and differs from the
\* original path.
C5_SiblingKeepsExtensionCase ==
  pc = "renaming" =>
    /\ dirname(newFilePath) = dirname(filePath)
    /\ extname(newFilePath) = extname(filePath)
    /\ newFilePath # filePath

\* C5 as amended: a target path is a sibling of the original path, ends with
\* the original extension converted to lower case, and differs from the
\* original path.
C5_SiblingLowerCaseExtension ==
  pc = "renaming" =>
    /\ dirname(newFilePath) = dirname(filePath)
    /\ extname(newFilePath) = ToLowerCase(extname(filePath))
    /\ newFilePath # filePath

\* C5: a plan for a file in a sub-directory whose extension has upper-case letters.
C5_Witness ==
  /\ pc = "renaming"
  /\ extname(filePath) # ToLowerCase(extname(filePath))
  /\ dirname(filePath) # rootPath

\* The name of line 181 built from the manifest's values as decoded, before
\* any replacement.
RawNewName ==
  LET name == Or(Or(Or(data.props["CFBundleDisplayName"], data.props["CFBundleName"]),
                    data.props["BundleDisplayName"]),
                 data.props["UILocalizedDisplayName"])
      rawVersion == Or(data.props["CFBundleShortVersionString"], data.props["CFBundleVersion"])
      rawMin == Or(data.props["MinimumOSVersion"], Str(<<"0", ".", "0", ".", "0">>))
  IN  (IF includeOriginalName
       THEN basename(filePath, extname(filePath)) \o <<" ", "U2194", " ">>
       ELSE <<>>)
      \o (IF Truthy(name) THEN name.s ELSE <<"U", "n", "k", "n", "o", "w", "n", "N", "a", "m", "e">>)
      \o <<" ", "U2013">>
      \o (IF Truthy(rawVersion) THEN <<" ", "[", "v">> \o ToString(rawVersion) \o <<"]">> ELSE <<>>)
      \o <<" ", "[", "i", "O", "S", " ">> \o ToString(rawMin) \o <<"]">>
      \o ToLowerCase(extname(filePath))

HasReserved(v) == v.t = "string" /\ \E i \in 1..Len(v.s) : v.s[i] \in Reserved

\* C6: the file name of a target path holds no reserved character; it is the
\* assembled name with each reserved character, wherever it came from,
\* replaced by one space.
C6_NoReservedCharacter ==
  pc = "renaming" =>
    LET name == basename(newFilePath, <<>>)
    IN  /\ Len(name) = Len(RawNewName)
        /\ \A i \in 1..Len(name) :
             /\ name[i] \notin Reserved
             /\ name[i] = IF RawNewName[i] \in Reserved THEN " " ELSE RawNewName[i]

\* C6: a plan from a manifest whose name, version and minimum-OS values all
\* hold reserved characters.
C6_Witness ==
  /\ pc = "renaming"
  /\ HasReserved(data.props["CFBundleDisplayName"])
  /\ HasReserved(data.props["CFBundleShortVersionString"])
  /\ HasReserved(data.props["MinimumOSVersion"])

\* C7: a container that was opened is closed exactly once when its extraction
\* is over, whatever the exit path; none is open between two archives, and at
\* most one is open at any time.
C7_ContainerClosedOnce ==
  /\ openHandles <= 1
  /\ pc \in {"loop", "opening", "renaming", "done"} => openHandles = 0
  /\ (pc \in {"resolved", "crashed"} /\ wasOpened) => (closeCalls = 1 /\ openHandles = 0)

\* C8: entries are requested one at a time in container order; the first
\* matching entry ends the scan: nothing is requested after it, a read stream
\* is opened for it alone, and the promise is resolved at most once.
C8_EarlyTermination ==
  /\ resolveCalls <= 1
  /\ readEntryCalls <= entriesRead + 1
  /\ entriesRead <= Len(zipEntries)
  /\ matched = 0 =>
       /\ streamsOpened = {}
       /\ \A j \in 1..entriesRead : ~isManifestEntry(zipEntries[j].fileName)
  /\ matched # 0 =>
       /\ streamsOpened = {matched}
       /\ entriesRead = matched
       /\ readEntryCalls = matched
       /\ isManifestEntry(zipEntries[matched].fileName)
       /\ \A j \in 1..(matched - 1) : ~isManifestEntry(zipEntries[j].fileName)

\* C8: the promise resolved with metadata taken from the second of three
\* entries.
C8_Witness ==
  /\ pc = "resolved"
  /\ ~info.isNull
  /\ matched = 2
  /\ Len(zipEntries) = 3
  /\ resolveCalls = 1

\* C9: no rename replaces an existing file, and the number of files on disk
\* stays what it was before the first run.
C9_NoSilentOverwrite ==
  /\ ~overwrote
  /\ Cardinality(DOMAIN fs) = filesAtStart

\* C10: the two counters sum to the number of finished files; a finished file
\* made exactly one increment, of the renamed counter only when it was renamed;
\* an unfinished file made none; a file with an unsupported extension never
\* has its container opened; at the end the counters sum to the length of the
\* walk list.
C10_OutcomeAccounting ==
  /\ run > 0 => renamedFilesLength + skippedFilesLength = idx - 1
  /\ renamedFilesLength = renamesDone
  /\ \A i \in 1..Len(allFiles) :
       /\ i < idx => incr[i].renamed + incr[i].skipped = 1
       /\ i >= idx => incr[i] = [renamed |-> 0, skipped |-> 0]
       /\ i \in opened => isFileSupported(ToLowerCase(extname(allFiles[i])))
  /\ pc = "done" => renamedFilesLength + skippedFilesLength = Len(allFiles)

\* C10: a finished run with one file renamed and one skipped for its
\* extension.
C10_Witness ==
  /\ pc = "done"
  /\ renamedFilesLength = 1
  /\ skippedFilesLength = 1
  /\ \E i \in 1..Len(allFiles) : ~isFileSupported(ToLowerCase(extname(allFiles[i])))

=============================================================================
